---- MODULE Spec2Model ----
(***************************************************************************)
(* A model of the GCN inline-assembly builder (GCNAsmFormat.h) and of the  *)
(* LLVM-IR -> AMDGCN/HSACO translation pipeline (HSACOTranslation.cpp).    *)
(*                                                                         *)
(* Three specifications share the variables:                               *)
(*   SpecInstr    the Instruction Model (create, o, float_op_type,         *)
(*                load_type, store_type);                                  *)
(*   SpecBuilder  the Operand/Modifier Store, Instruction Invocation and   *)
(*                Format Synthesizer;                                      *)
(*   SpecPipe     one run of llir_to_amdgcn_and_hsaco.                     *)
(***************************************************************************)
EXTENDS Integers, Sequences, FiniteSets, TLC

VARIABLES
  \* ---- GCNBuilder (GCNAsmFormat.h:167-171) and the build/run status
  argArchive,     \* SmallVector<unique_ptr<Operand>>: sequence of Operand records
  modArchive,     \* SmallVector<unique_ptr<Modifier>>
  instrs,         \* SmallVector<unique_ptr<GCNInstrCommon>>
  executions,     \* SmallVector<unique_ptr<GCNInstrExecution>>
  oprCounter,     \* int oprCounter{}
  ndebug,         \* whether the build defines NDEBUG (assert compiled out)
  aborted,        \* an assert has failed and the process was aborted
  handles,        \* history: the Operand* values the Store has returned to its client
  built,          \* history: the lists newListOperand(count, constraint) made, as
                  \* long as the client has appended nothing to them
  last,           \* history: the call just made, when a property speaks of it
  \* ---- llir_to_amdgcn_and_hsaco (HSACOTranslation.cpp)
  pc,             \* position in the translation
  branch,         \* which generate_* function is running: "none", "asm", "obj"
  registry,       \* the triples llvm::TargetRegistry resolves in this process
  heap,           \* llvm::Module objects by address
  module_obj,     \* address of the clone (line 153), Null before it exists
  cur,            \* the llvm::Module* parameter of the running stage
  target,         \* result of TargetRegistry::lookupTarget
  error,          \* std::string error filled by lookupTarget
  machine,        \* the llvm::TargetMachine of the running stage
  amdgcn,         \* the assembly string, NoText until emitted
  files,          \* paths present on the file system
  isabin_open,    \* whether isabin_fs was opened without error (ec unset)
  lld_result,     \* exit code of ld.lld (0 until it ran)
  error_message,  \* text captured from ExecuteAndWait
  console,        \* what was written to std::cout
  ret,            \* the tuple returned to the caller, <<>> until returned
  input0,         \* history: the input module as it was handed in
  trail           \* history: the stages run so far, as <<stage, module address>>

bvars == <<argArchive, modArchive, instrs, executions, oprCounter, ndebug, aborted,
          handles, built, last>>
pvars == <<pc, branch, registry, heap, module_obj, cur, target, error, machine, amdgcn, files,
           isabin_open, lld_result, error_message, console, ret, input0, trail>>
vars == <<bvars, pvars>>

Null == "null"
NoMachine == [kind |-> "none"]
\* A TargetMachine* obtained through a null Target*.
WildMachine == [kind |-> "wild"]
NoText == [type |-> "none"]

\* ------------------------------------------------------------------ bounds
MaxInstrs == 1
MaxParts == 3

\* --------------------------------------------------- enum VectorWidth
Byte == 8
Short == 16
Dword == 32
Qword == 64

\* Widths handed to the suffix helpers: the four enumerators and values
\* outside the enumeration (the parameter is a plain int).
Widths == {0, Byte, Short, 24, Dword, Qword, 128}

InstrKinds == {"GCNInstr", "GCNMemInstr"}
InstrNames == {"v_mov_b32", "global_load"}
SuffixTokens == {"sat"}

NoCall == [op |-> "none"]

\* ------------------------------------------------ Instruction Model
\* GCNInstrBase::o(suffix, predicate): push_back when the predicate holds.
o_parts(parts, suffix, predicate) ==
  IF predicate THEN Append(parts, suffix) ELSE parts

\* The constructor GCNInstrBase(builder, name): o(name) on empty instrParts.
GCNInstrBase(kind, name) ==
  [kind |-> kind, instrParts |-> o_parts(<<>>, name, TRUE)]

\* The switch of GCNInstr::float_op_type in a build where the Byte case
\* falls through to its break (the assert passed or was compiled out).
float_op_type_parts(parts, width) ==
  CASE width = Byte -> parts
    [] width = Short -> o_parts(parts, "f16", TRUE)
    [] width = Dword -> o_parts(parts, "f32", TRUE)
    [] width = Qword -> o_parts(parts, "f64", TRUE)
    [] OTHER -> parts

\* assert(Byte != width) in the Byte case: fails whenever it is evaluated,
\* and is evaluated only when NDEBUG is not defined.
float_op_type_asserts(width) ==
  width = Byte /\ ~ndebug

\* load_type with the Dword and Qword cases exchanged.
load_type_parts_swapped(parts, width) ==
  CASE width = Byte -> o_parts(parts, "ubyte", TRUE)
    [] width = Short -> o_parts(parts, "ushort", TRUE)
    [] width = Dword -> o_parts(parts, "dwordx2", TRUE)
    [] width = Qword -> o_parts(parts, "dword", TRUE)
    [] OTHER -> parts

load_type_parts(parts, width) ==
  CASE width = Byte -> o_parts(parts, "ubyte", TRUE)
    [] width = Short -> o_parts(parts, "ushort", TRUE)
    [] width = Dword -> o_parts(parts, "dword", TRUE)
    [] width = Qword -> o_parts(parts, "dwordx2", TRUE)
    [] OTHER -> parts

store_type_parts(parts, width) ==
  CASE width = Byte -> o_parts(parts, "byte", TRUE)
    [] width = Short -> o_parts(parts, "short", TRUE)
    [] width = Dword -> o_parts(parts, "dword", TRUE)
    [] width = Qword -> o_parts(parts, "dwordx2", TRUE)
    [] OTHER -> parts

\* GCNBuilder::create<INSTR>(name)
create(kind, name) ==
  /\ ~aborted
  /\ Len(instrs) < MaxInstrs
  /\ instrs' = Append(instrs, GCNInstrBase(kind, name))
  /\ last' = NoCall
  /\ UNCHANGED <<argArchive, modArchive, executions, oprCounter, ndebug, aborted, handles, built>>
  /\ UNCHANGED pvars

\* instr.o(suffix, predicate)
o(i, suffix, predicate) ==
  /\ ~aborted
  /\ i \in 1..Len(instrs)
  /\ Len(instrs[i].instrParts) < MaxParts
  /\ instrs' = [instrs EXCEPT ![i].instrParts = o_parts(@, suffix, predicate)]
  /\ last' = NoCall
  /\ UNCHANGED <<argArchive, modArchive, executions, oprCounter, ndebug, aborted, handles, built>>
  /\ UNCHANGED pvars

\* GCNInstr::float_op_type(width)
float_op_type(i, width) ==
  /\ ~aborted
  /\ i \in 1..Len(instrs)
  /\ instrs[i].kind = "GCNInstr"
  /\ Len(instrs[i].instrParts) < MaxParts
  /\ IF float_op_type_asserts(width)
       THEN /\ aborted' = TRUE
            /\ instrs' = instrs
       ELSE /\ aborted' = aborted
            /\ instrs' = [instrs EXCEPT ![i].instrParts = float_op_type_parts(@, width)]
  /\ last' = [op |-> "float_op_type", instr |-> i, width |-> width,
              before |-> instrs[i].instrParts]
  /\ UNCHANGED <<argArchive, modArchive, executions, oprCounter, ndebug, handles, built>>
  /\ UNCHANGED pvars

\* GCNMemInstr::load_type(width)
load_type(i, width) ==
  /\ ~aborted
  /\ i \in 1..Len(instrs)
  /\ instrs[i].kind = "GCNMemInstr"
  /\ Len(instrs[i].instrParts) < MaxParts
  /\ instrs' = [instrs EXCEPT ![i].instrParts = load_type_parts(@, width)]
  /\ last' = [op |-> "load_type", instr |-> i, width |-> width,
              before |-> instrs[i].instrParts]
  /\ UNCHANGED <<argArchive, modArchive, executions, oprCounter, ndebug, aborted, handles, built>>
  /\ UNCHANGED pvars

\* GCNMemInstr::store_type(width)
store_type(i, width) ==
  /\ ~aborted
  /\ i \in 1..Len(instrs)
  /\ instrs[i].kind = "GCNMemInstr"
  /\ Len(instrs[i].instrParts) < MaxParts
  /\ instrs' = [instrs EXCEPT ![i].instrParts = store_type_parts(@, width)]
  /\ last' = [op |-> "store_type", instr |-> i, width |-> width,
              before |-> instrs[i].instrParts]
  /\ UNCHANGED <<argArchive, modArchive, executions, oprCounter, ndebug, aborted, handles, built>>
  /\ UNCHANGED pvars

\* ------------------------------------------------------ initial states
\* A freshly constructed GCNBuilder, in either build.
InitBuilder ==
  /\ argArchive = <<>>
  /\ modArchive = <<>>
  /\ instrs = <<>>
  /\ executions = <<>>
  /\ oprCounter = 0
  /\ ndebug \in BOOLEAN
  /\ aborted = FALSE
  /\ handles = {}
  /\ built = {}
  /\ last = NoCall

\* The translation has not been entered.
IdlePipe ==
  /\ pc = "idle"
  /\ branch = "none"
  /\ registry = {}
  /\ heap = <<>>
  /\ module_obj = Null
  /\ cur = Null
  /\ target = Null
  /\ error = ""
  /\ machine = NoMachine
  /\ amdgcn = NoText
  /\ files = {}
  /\ isabin_open = FALSE
  /\ lld_result = 0
  /\ error_message = ""
  /\ console = <<>>
  /\ ret = <<>>
  /\ input0 = Null
  /\ trail = <<>>

InitInstr == InitBuilder /\ IdlePipe

NextInstr ==
  \/ create("GCNInstr", "v_mov_b32")
  \/ create("GCNMemInstr", "global_load")
  \/ \E i \in 1..MaxInstrs, s \in SuffixTokens, p \in BOOLEAN : o(i, s, p)
  \/ \E i \in 1..MaxInstrs, w \in Widths : float_op_type(i, w)
  \/ \E i \in 1..MaxInstrs, w \in Widths : load_type(i, w)
  \/ \E i \in 1..MaxInstrs, w \in Widths : store_type(i, w)

SpecInstr == InitInstr /\ [][NextInstr]_vars

\* ============================================== Operand/Modifier Store
MaxOperands == 4
MaxHandles == 2
MaxExec == 2
MaxArity == 2
MaxMods == 1

NoValue == "none"                      \* a null mlir::Value
Values == {"x"}
\* Constraint codes, as character sequences: "=r" and "r".
Constraints == {<<"=", "r">>, <<"r">>}
NoRepr == [kind |-> "none"]            \* repr == nullptr
Literals == {"0"}
ModifierNames == {"offset"}
ModifierArgs == {"16"}

\* A default Operand whose idx is value-initialised (int idx{}).
OperandDefaultZeroIdx ==
  [constraint |-> <<>>, value |-> "none", idx |-> 0, list |-> <<>>,
   repr |-> [kind |-> "none"]]

\* Operand() = default: no value, empty constraint, idx{-1}, empty list.
OperandDefault ==
  [constraint |-> <<>>, value |-> NoValue, idx |-> -1, list |-> <<>>, repr |-> NoRepr]

\* Operand(Value value, StringRef constraint)
OperandOf(value, constraint) ==
  [OperandDefault EXCEPT !.value = value, !.constraint = constraint]

\* An isList that looks at the value alone.
isListValueOnly(opr) == opr.value = NoValue

\* Operand::isList(): !value && constraint.empty()
isList(opr) == opr.value = NoValue /\ opr.constraint = <<>>

\* Operand::listAppend(arg): list.push_back(arg)
listAppend(opr, arg) == [opr EXCEPT !.list = Append(@, arg)]

\* Operand::listGet(nth), nth < list.size()
listGet(opr, nth) == opr.list[nth + 1]

\* The private GCNBuilder::newOperand(): a default Operand joins the archive;
\* the new Operand* is the archive's last position.
newOperand0(archive) == Append(archive, OperandDefault)

\* newOperand(value, constraint, formatter = nullptr): a bound Operand joins
\* the archive; its index is assigned when it is used.
newOperandVC(archive, value, constraint) ==
  Append(archive, OperandOf(value, constraint))

\* newOperand(constraint): an Operand that is written to, with no bound value.
newOperandC(archive, constraint) ==
  Append(archive, OperandOf(NoValue, constraint))

\* newConstantOperand(v): no value, no constraint, a fixed literal rendering.
newConstant(archive, v) ==
  Append(archive, [OperandDefault EXCEPT !.repr = [kind |-> "const", text |-> v]])

\* The loop of newListOperand(items): each item becomes a new Operand that
\* is appended to the list at l.
RECURSIVE ListFillItems(_, _, _)
ListFillItems(archive, l, items) ==
  IF items = <<>> THEN archive
  ELSE LET a == newOperandVC(archive, Head(items)[1], Head(items)[2])
       IN ListFillItems([a EXCEPT ![l] = listAppend(@, Len(a))], l, Tail(items))

newListOperandItems(archive, items) ==
  LET a == newOperand0(archive) IN ListFillItems(a, Len(a), items)

\* for (int i = 0; i < count; ++i) list->listAppend(newOperand(val, constraint));
RECURSIVE ListFillVal(_, _, _, _, _, _)
ListFillVal(archive, l, i, count, val, constraint) ==
  IF ~(i < count) THEN archive
  ELSE LET a == newOperandVC(archive, val, constraint)
       IN ListFillVal([a EXCEPT ![l] = listAppend(@, Len(a))], l, i + 1, count,
                      val, constraint)

newListOperandCountVal(archive, count, val, constraint) ==
  LET a == newOperand0(archive) IN ListFillVal(a, Len(a), 0, count, val, constraint)

\* for (int i = 0; i < count; ++i) list->listAppend(newOperand(constraint));
RECURSIVE ListFill(_, _, _, _, _)
ListFill(archive, l, i, count, constraint) ==
  IF ~(i < count) THEN archive
  ELSE LET a == newOperandC(archive, constraint)
       IN ListFill([a EXCEPT ![l] = listAppend(@, Len(a))], l, i + 1, count, constraint)

\* newListOperand(count, constraint) with a loop that starts at 1.
newListOperandCountFromOne(archive, count, constraint) ==
  LET a == newOperand0(archive) IN ListFill(a, Len(a), 1, count, constraint)

newListOperandCount(archive, count, constraint) ==
  LET a == newOperand0(archive) IN ListFill(a, Len(a), 0, count, constraint)

\* Modifier() = default
ModifierDefault == [value |-> NoValue, modifier |-> "", arg |-> "", list |-> <<>>]

\* newModifier(modifier, arg): a named modifier with an optional argument.
ModifierOf(modifier, arg) ==
  [ModifierDefault EXCEPT !.modifier = modifier, !.arg = arg]

\* Modifier::to_str()
to_str(m) == IF m.arg # "" THEN m.modifier \o ":" \o m.arg ELSE m.modifier

\* ---------------------------------------------- Instruction Invocation
\* An execution that keeps its operands in reverse.
RECURSIVE Reverse(_)
Reverse(q) == IF q = <<>> THEN <<>> ELSE Append(Reverse(Tail(q)), Head(q))

GCNInstrExecutionReversed(instr, oprs, modifiers) ==
  [instr |-> instr, argsInOrder |-> Reverse(oprs), mods |-> modifiers]

\* GCNInstrExecution(instr, oprs, modifiers): the back-reference and copies
\* of both lists.
GCNInstrExecution(instr, oprs, modifiers) ==
  [instr |-> instr, argsInOrder |-> oprs, mods |-> modifiers]

\* ------------------------------------------------- Format Synthesizer
\* The operands a sequence of Operand* stands for: a list Operand is
\* replaced by its children, in child order.
RECURSIVE Children(_, _, _)
RECURSIVE Expand(_, _)
Expand(archive, ptrs) ==
  IF ptrs = <<>> THEN <<>>
  ELSE LET p == Head(ptrs)
       IN (IF isList(archive[p])
             THEN Children(archive, p, 0)
             ELSE <<p>>) \o Expand(archive, Tail(ptrs))

Children(archive, p, nth) ==
  IF ~(nth < Len(archive[p].list)) THEN <<>>
  ELSE Expand(archive, <<listGet(archive[p], nth)>>) \o Children(archive, p, nth + 1)

\* Index assignment: each operand that has no index yet takes the counter's
\* value, in the order given. <<archive, counter>> afterwards.
RECURSIVE AssignIndices(_, _, _)
AssignIndices(archive, counter, ptrs) ==
  IF ptrs = <<>> THEN <<archive, counter>>
  ELSE IF archive[Head(ptrs)].idx >= 0
    THEN AssignIndices(archive, counter, Tail(ptrs))
    ELSE AssignIndices([archive EXCEPT ![Head(ptrs)].idx = counter], counter + 1,
                       Tail(ptrs))

\* The archive positions whose Operand carries index k, in archive order.
RECURSIVE WithIndex(_, _, _)
WithIndex(archive, k, p) ==
  IF p > Len(archive) THEN <<>>
  ELSE (IF archive[p].idx = k THEN <<p>> ELSE <<>>) \o WithIndex(archive, k, p + 1)

RECURSIVE ArgsFrom(_, _, _)
ArgsFrom(archive, k, n) ==
  IF k >= n THEN <<>> ELSE WithIndex(archive, k, 1) \o ArgsFrom(archive, k + 1, n)

\* getAllArgs(): the indexed Operands in index order.
getAllArgs == ArgsFrom(argArchive, 0, oprCounter)

\* getAllMLIRArgs(): the bound values, one for each entry of getAllArgs().
getAllMLIRArgs == [i \in 1..Len(getAllArgs) |-> argArchive[getAllArgs[i]].value]

RECURSIVE JoinChars(_, _)
JoinChars(strs, sep) ==
  IF strs = <<>> THEN <<>>
  ELSE IF Len(strs) = 1 THEN Head(strs)
  ELSE Head(strs) \o sep \o JoinChars(Tail(strs), sep)

\* getConstraints(): the comma-join of the constraints of getAllArgs().
getConstraints ==
  JoinChars([i \in 1..Len(getAllArgs) |-> argArchive[getAllArgs[i]].constraint], <<",">>)

RECURSIVE JoinStr(_, _)
JoinStr(strs, sep) ==
  IF strs = <<>> THEN ""
  ELSE IF Len(strs) = 1 THEN Head(strs)
  ELSE Head(strs) \o sep \o JoinStr(Tail(strs), sep)

\* The rendering of one Operand: the literal of a constant, the children of
\* a list joined by ", ", and %<idx> otherwise.
RECURSIVE RenderChildren(_, _)
RECURSIVE RenderOperand(_)
RenderOperand(p) ==
  LET opr == argArchive[p] IN
  IF opr.repr.kind = "const" THEN opr.repr.text
  ELSE IF isList(opr) THEN JoinStr(RenderChildren(p, 0), ", ")
  ELSE "%" \o ToString(opr.idx)

RenderChildren(p, nth) ==
  IF ~(nth < Len(argArchive[p].list)) THEN <<>>
  ELSE <<RenderOperand(listGet(argArchive[p], nth))>> \o RenderChildren(p, nth + 1)

\* GCNInstrExecution::dump(): the mnemonic joined from the instruction's
\* tokens as they are now, the rendered operands, the modifiers.
dump(k) ==
  LET e == executions[k]
      mnemonic == JoinStr(instrs[e.instr].instrParts, "_")
      args == JoinStr([i \in 1..Len(e.argsInOrder) |-> RenderOperand(e.argsInOrder[i])], ", ")
      mods == JoinStr([i \in 1..Len(e.mods) |-> to_str(modArchive[e.mods[i]])], ":")
  IN mnemonic
     \o (IF args = "" THEN "" ELSE " " \o args)
     \o (IF mods = "" THEN "" ELSE " " \o mods)

\* ------------------------------------------------------ Store actions
Room(n) ==
  /\ Len(argArchive) + n <= MaxOperands
  /\ Cardinality(handles) < MaxHandles

Created(archive, handle, made) ==
  /\ ~aborted
  /\ argArchive' = archive
  /\ handles' = handles \cup {handle}
  /\ built' = built \cup made
  /\ last' = NoCall
  /\ UNCHANGED <<modArchive, instrs, executions, oprCounter, ndebug, aborted>>
  /\ UNCHANGED pvars

newOperandValue(value, constraint) ==
  /\ Room(1)
  /\ Created(newOperandVC(argArchive, value, constraint), Len(argArchive) + 1, {})

newOperandWritten(constraint) ==
  /\ Room(1)
  /\ Created(newOperandC(argArchive, constraint), Len(argArchive) + 1, {})

newConstantOperand(v) ==
  /\ Room(1)
  /\ Created(newConstant(argArchive, v), Len(argArchive) + 1, {})

\* newListOperand()
newListOperandEmpty ==
  /\ Room(1)
  /\ Created(newOperand0(argArchive), Len(argArchive) + 1, {})

\* newListOperand(items)
newListOperandOfItems(items) ==
  /\ Room(1 + Len(items))
  /\ Created(newListOperandItems(argArchive, items), Len(argArchive) + 1, {})

\* newListOperand(count, val, constraint)
newListOperandOfValue(count, val, constraint) ==
  /\ Room(1 + count)
  /\ Created(newListOperandCountVal(argArchive, count, val, constraint),
             Len(argArchive) + 1, {})

\* newListOperand(count, constraint)
newListOperandOfCount(count, constraint) ==
  /\ Room(1 + count)
  /\ Created(newListOperandCount(argArchive, count, constraint), Len(argArchive) + 1,
             {[list |-> Len(argArchive) + 1, count |-> count, constraint |-> constraint]})

\* The operands some execution refers to, lists included.
Referenced ==
  {p \in 1..Len(argArchive) :
     \E k \in 1..Len(executions) :
       \E i \in 1..Len(executions[k].argsInOrder) : executions[k].argsInOrder[i] = p}

\* list->listAppend(arg) by the client, while it populates a list it has
\* not used yet, with an operand it holds.
clientListAppend(l, arg) ==
  /\ ~aborted
  /\ l \in handles /\ arg \in handles
  /\ isList(argArchive[l]) /\ argArchive[l].repr = NoRepr
  /\ ~isList(argArchive[arg])
  /\ l \notin Referenced
  /\ Len(argArchive[l].list) < MaxArity
  /\ argArchive' = [argArchive EXCEPT ![l] = listAppend(@, arg)]
  /\ built' = {b \in built : b.list # l}
  /\ last' = NoCall
  /\ UNCHANGED <<modArchive, instrs, executions, oprCounter, ndebug, aborted, handles>>
  /\ UNCHANGED pvars

\* newModifier(modifier, arg)
newModifier(modifier, arg) ==
  /\ ~aborted
  /\ Len(modArchive) < MaxMods
  /\ modArchive' = Append(modArchive, ModifierOf(modifier, arg))
  /\ last' = NoCall
  /\ UNCHANGED <<argArchive, instrs, executions, oprCounter, ndebug, aborted, handles, built>>
  /\ UNCHANGED pvars

\* GCNInstrCommon::call(oprs, mods), reached through operator(): one
\* GCNInstrExecution joins builder->executions, and the operands it refers
\* to (lists expanded) that have no index yet are indexed.
call(i, oprs, mods) ==
  /\ ~aborted
  /\ i \in 1..Len(instrs)
  /\ Len(executions) < MaxExec
  /\ executions' = Append(executions, GCNInstrExecution(i, oprs, mods))
  /\ LET r == AssignIndices(argArchive, oprCounter, Expand(argArchive, oprs))
     IN argArchive' = r[1] /\ oprCounter' = r[2]
  /\ last' = [op |-> "call", instr |-> i, oprs |-> oprs, mods |-> mods]
  /\ UNCHANGED <<modArchive, instrs, ndebug, aborted, handles, built>>
  /\ UNCHANGED pvars

\* Sequences of at most n elements of S.
SeqsUpTo(S, n) == UNION {[1..m -> S] : m \in 0..n}

NextBuilder ==
  \/ \E v \in Values, c \in Constraints : newOperandValue(v, c)
  \/ \E c \in {<<"=", "r">>} : newOperandWritten(c)
  \/ \E v \in Literals : newConstantOperand(v)
  \/ newListOperandEmpty
  \/ \E items \in SeqsUpTo(Values \X Constraints, MaxArity) : newListOperandOfItems(items)
  \/ \E n \in 0..MaxOperands, v \in Values, c \in Constraints :
       newListOperandOfValue(n, v, c)
  \/ \E n \in 0..MaxOperands, c \in Constraints : newListOperandOfCount(n, c)
  \/ \E l \in 1..MaxOperands, a \in 1..MaxOperands : clientListAppend(l, a)
  \/ \E m \in ModifierNames, a \in ModifierArgs : newModifier(m, a)
  \/ create("GCNInstr", "v_mov_b32")
  \/ \E i \in 1..MaxInstrs, s \in SuffixTokens : o(i, s, TRUE)
  \/ \E i \in 1..MaxInstrs, oprs \in SeqsUpTo(handles, MaxArity),
        mods \in SeqsUpTo(1..Len(modArchive), 1) : call(i, oprs, mods)

\* A fresh builder in a build with assertions.
InitStore == InitInstr /\ ~ndebug

SpecBuilder == InitStore /\ [][NextBuilder]_vars

\* ================================================= HSACOTranslation.cpp
NumFuncs == 2
Funcs == 1..NumFuncs

\* llir_to_amdgcn_and_hsaco, lines 146-148
Triple == "amdgcn-amd-amdhsa"
Features == "+sramecc,-xnack"
Proc == "gfx908"

Module0 == "m0"        \* the llvm::Module* handed in by the caller
Clone == "m1"          \* the object llvm::CloneModule allocates

LookupErrorText == "No available targets are compatible with triple"


\* An llvm::Module, as far as the pipeline reads or writes it.
ModuleContents ==
  [valid : BOOLEAN,                 \* whether the verifier accepts it
   triple : {"", Triple},
   dataLayout : {""},
   alwaysInline : SUBSET Funcs,     \* functions carrying AlwaysInline
   lowered : {FALSE}]               \* whether code-generation passes ran on it

\* llvm::CloneModule(*module): a new module with the same contents.
CloneModule(m) == m

\* A verifier pass created with FatalErrors = false: a broken module is only
\* reported and the run goes on.
VerifierPassNotFatal(m) == "ok"

\* The legacy verifier pass of createVerifierPass() (FatalErrors defaults to
\* true): a broken module ends the process in report_fatal_error.
VerifierPass(m) == IF m.valid THEN "ok" ELSE "fatal"

\* TargetRegistry::lookupTarget(triple, error): <<target, error>>.
lookupTarget(triple) ==
  IF triple \in registry THEN <<"AMDGPU", "">> ELSE <<Null, LookupErrorText>>

\* target->createTargetMachine(triple, proc, features, opt, PIC_, None, Aggressive)
createTargetMachine(triple) ==
  [kind |-> "TargetMachine", triple |-> triple, proc |-> Proc, features |-> Features,
   fpFusion |-> "Fast", noNaNs |-> TRUE, reloc |-> "PIC", opt |-> "Aggressive"]

\* machine->createDataLayout()
createDataLayout(m) == IF m = WildMachine THEN "indeterminate" ELSE "e-p:64:64"

\* What addPassesToEmitFile + pass.run write for a module: a function of the
\* module's contents and of the machine.
EmitFile(m, mach, type) ==
  [type |-> type, valid |-> m.valid, triple |-> m.triple, dataLayout |-> m.dataLayout,
   alwaysInline |-> m.alwaysInline, lowered |-> m.lowered, machine |-> mach]

KernelName == "tmpnam_module"
IsabinPath == "tmpnam_module.o"
HsacoPath == "tmpnam_module.hsaco"

\* generate_hsaco called on the caller's module instead of the clone.
HsacoArgShared == Module0

\* The module generate_hsaco is called on (line 155).
HsacoArg == module_obj

\* What generate_hsaco returns (line 140).
generate_hsaco_result(code, path) == path

\* Exit codes of ExecuteAndWait: 0 success, positive a linker error, -1 the
\* program could not be executed.
LinkerCodes(haveInput) == IF haveInput THEN {0, 1, -1} ELSE {1, -1}

Stamp(stage) == Append(trail, [branch |-> branch, stage |-> stage, module |-> cur])

\* line 150
init_llvm ==
  /\ pc = "init_llvm"
  /\ pc' = "CloneModule"
  /\ UNCHANGED <<branch, registry, heap, module_obj, cur, target, error, machine, amdgcn,
                 files, isabin_open, lld_result, error_message, console, ret, input0, trail>>
  /\ UNCHANGED bvars

\* line 153
DoCloneModule ==
  /\ pc = "CloneModule"
  /\ module_obj' = Clone
  /\ heap' = heap @@ (Clone :> CloneModule(heap[Module0]))
  /\ pc' = "call_asm"
  /\ UNCHANGED <<branch, registry, cur, target, error, machine, amdgcn,
                 files, isabin_open, lld_result, error_message, console, ret, input0, trail>>
  /\ UNCHANGED bvars

\* line 154: enter generate_amdgcn_assembly(module, ...)
call_generate_amdgcn_assembly ==
  /\ pc = "call_asm"
  /\ branch' = "asm"
  /\ cur' = Module0
  /\ pc' = "verify"
  /\ UNCHANGED <<registry, heap, module_obj, target, error, machine, amdgcn,
                 files, isabin_open, lld_result, error_message, console, ret, input0, trail>>
  /\ UNCHANGED bvars

\* initialize_module, lines 53-55
verify ==
  /\ pc = "verify"
  /\ IF VerifierPass(heap[cur]) = "ok"
       THEN pc' = "setTargetTriple" /\ trail' = Stamp("verify")
       ELSE pc' = "fatal" /\ trail' = trail
  /\ UNCHANGED <<branch, registry, heap, module_obj, cur, target, error, machine, amdgcn,
                 files, isabin_open, lld_result, error_message, console, ret, input0>>
  /\ UNCHANGED bvars

\* line 57
setTargetTriple ==
  /\ pc = "setTargetTriple"
  /\ heap' = [heap EXCEPT ![cur].triple = Triple]
  /\ pc' = "lookupTarget"
  /\ UNCHANGED <<branch, registry, module_obj, cur, target, error, machine, amdgcn,
                 files, isabin_open, lld_result, error_message, console, ret, input0, trail>>
  /\ UNCHANGED bvars

\* lines 59-61
DoLookupTarget ==
  /\ pc = "lookupTarget"
  /\ target' = lookupTarget(heap[cur].triple)[1]
  /\ error' = lookupTarget(heap[cur].triple)[2]
  /\ pc' = "createTargetMachine"
  /\ UNCHANGED <<branch, registry, heap, module_obj, cur, machine, amdgcn,
                 files, isabin_open, lld_result, error_message, console, ret, input0, trail>>
  /\ UNCHANGED bvars

\* lines 62-69. error is never read and target is dereferenced unchecked:
\* with a null target the call is undefined, and either traps or returns
\* some pointer.
DoCreateTargetMachine ==
  /\ pc = "createTargetMachine"
  /\ IF target # Null
       THEN machine' = createTargetMachine(heap[cur].triple) /\ pc' = "setDataLayout"
       ELSE \/ machine' = machine /\ pc' = "crashed"
            \/ machine' = WildMachine /\ pc' = "setDataLayout"
  /\ UNCHANGED <<branch, registry, heap, module_obj, cur, target, error, amdgcn,
                 files, isabin_open, lld_result, error_message, console, ret, input0, trail>>
  /\ UNCHANGED bvars

\* line 71; through a wild machine the call is undefined again.
setDataLayout ==
  /\ pc = "setDataLayout"
  /\ \/ /\ heap' = [heap EXCEPT ![cur].dataLayout = createDataLayout(machine)]
        /\ pc' = "addFnAttr"
     \/ /\ machine = WildMachine
        /\ heap' = heap
        /\ pc' = "crashed"
  /\ UNCHANGED <<branch, registry, module_obj, cur, target, error, machine, amdgcn,
                 files, isabin_open, lld_result, error_message, console, ret, input0, trail>>
  /\ UNCHANGED bvars

\* lines 73-76, and the return into the calling generate_* function
addFnAttr ==
  /\ pc = "addFnAttr"
  /\ heap' = [heap EXCEPT ![cur].alwaysInline = Funcs]
  /\ trail' = Stamp("configure")
  /\ pc' = IF branch = "asm" THEN "emit_asm" ELSE "open_isabin"
  /\ UNCHANGED <<branch, registry, module_obj, cur, target, error, machine, amdgcn,
                 files, isabin_open, lld_result, error_message, console, ret, input0>>
  /\ UNCHANGED bvars

\* generate_amdgcn_assembly, lines 85-94
emit_asm ==
  /\ pc = "emit_asm"
  /\ \/ /\ amdgcn' = EmitFile(heap[cur], machine, "CGFT_AssemblyFile")
        /\ heap' = [heap EXCEPT ![cur].lowered = TRUE]
        /\ trail' = Stamp("emit")
        /\ pc' = "dump_asm"
     \/ /\ machine = WildMachine
        /\ UNCHANGED <<amdgcn, heap, trail>>
        /\ pc' = "crashed"
  /\ UNCHANGED <<branch, registry, module_obj, cur, target, error, machine,
                 files, isabin_open, lld_result, error_message, console, ret, input0>>
  /\ UNCHANGED bvars

\* lines 95-99: the dump under AMDGCN_ENABLE_DUMP, and the return
dump_asm(enabled) ==
  /\ pc = "dump_asm"
  /\ console' = IF enabled THEN Append(console, "AMDGCN Dump") ELSE console
  /\ machine' = NoMachine
  /\ pc' = "call_hsaco"
  /\ UNCHANGED <<branch, registry, heap, module_obj, cur, target, error, amdgcn,
                 files, isabin_open, lld_result, error_message, ret, input0, trail>>
  /\ UNCHANGED bvars

\* line 155: enter generate_hsaco(module_obj.get(), ...)
call_generate_hsaco ==
  /\ pc = "call_hsaco"
  /\ branch' = "obj"
  /\ cur' = HsacoArg
  /\ pc' = "verify"
  /\ UNCHANGED <<registry, heap, module_obj, target, error, machine, amdgcn,
                 files, isabin_open, lld_result, error_message, console, ret, input0, trail>>
  /\ UNCHANGED bvars

\* generate_hsaco, lines 108-119: the stream is opened, and a failure to
\* create the file is printed
open_isabin(ok) ==
  /\ pc = "open_isabin"
  /\ isabin_open' = ok
  /\ console' = IF ok THEN console ELSE Append(console, "was not created")
  /\ pc' = "emit_obj"
  /\ UNCHANGED <<branch, registry, heap, module_obj, cur, target, error, machine, amdgcn,
                 files, lld_result, error_message, ret, input0, trail>>
  /\ UNCHANGED bvars

\* lines 121-123
emit_obj ==
  /\ pc = "emit_obj"
  /\ \/ /\ files' = IF isabin_open THEN files \cup {IsabinPath} ELSE files
        /\ heap' = [heap EXCEPT ![cur].lowered = TRUE]
        /\ trail' = Stamp("emit")
        /\ pc' = "link"
     \/ /\ machine = WildMachine
        /\ UNCHANGED <<files, heap, trail>>
        /\ pc' = "crashed"
  /\ UNCHANGED <<branch, registry, module_obj, cur, target, error, machine, amdgcn,
                 isabin_open, lld_result, error_message, console, ret, input0>>
  /\ UNCHANGED bvars

\* lines 126-132: ld.lld runs and is waited for
link(code) ==
  /\ pc = "link"
  /\ code \in LinkerCodes(IsabinPath \in files)
  /\ lld_result' = code
  /\ error_message' = CASE code = 0 -> ""
                        [] code = -1 -> "could not execute"
                        [] OTHER -> "ld.lld: error"
  /\ files' = IF code = 0 THEN files \cup {HsacoPath} ELSE files
  /\ pc' = "link_report"
  /\ UNCHANGED <<branch, registry, heap, module_obj, cur, target, error, machine, amdgcn,
                 isabin_open, console, ret, input0, trail>>
  /\ UNCHANGED bvars

\* lines 133-138
link_report ==
  /\ pc = "link_report"
  /\ console' = IF lld_result # 0
                  THEN console \o <<"ld.lld execute fail: ", error_message, ToString(lld_result)>>
                  ELSE console
  /\ pc' = "return"
  /\ UNCHANGED <<branch, registry, heap, module_obj, cur, target, error, machine, amdgcn,
                 files, isabin_open, lld_result, error_message, ret, input0, trail>>
  /\ UNCHANGED bvars

\* lines 140 and 157: hsaco_path is returned, then the tuple
return_tuple ==
  /\ pc = "return"
  /\ ret' = <<amdgcn, generate_hsaco_result(lld_result, HsacoPath)>>
  /\ machine' = NoMachine
  /\ branch' = "none"
  /\ pc' = "done"
  /\ UNCHANGED <<registry, heap, module_obj, cur, target, error, amdgcn,
                 files, isabin_open, lld_result, error_message, console, input0, trail>>
  /\ UNCHANGED bvars

\* translateLLVMIRToHSACO(module, cc) is entered with some module, in a
\* process whose registry resolves the triple or not.
InitPipe ==
  /\ InitBuilder
  /\ pc = "init_llvm"
  /\ branch = "none"
  /\ registry \in {{}, {Triple}}
  /\ input0 \in ModuleContents
  /\ heap = (Module0 :> input0)
  /\ module_obj = Null
  /\ cur = Null
  /\ target = Null
  /\ error = ""
  /\ machine = NoMachine
  /\ amdgcn = NoText
  /\ files = {}
  /\ isabin_open = FALSE
  /\ lld_result = 0
  /\ error_message = ""
  /\ console = <<>>
  /\ ret = <<>>
  /\ trail = <<>>

NextPipe ==
  \/ init_llvm
  \/ DoCloneModule
  \/ call_generate_amdgcn_assembly
  \/ verify
  \/ setTargetTriple
  \/ DoLookupTarget
  \/ DoCreateTargetMachine
  \/ setDataLayout
  \/ addFnAttr
  \/ emit_asm
  \/ \E enabled \in BOOLEAN : dump_asm(enabled)
  \/ call_generate_hsaco
  \/ \E ok \in BOOLEAN : open_isabin(ok)
  \/ emit_obj
  \/ \E code \in {0, 1, -1} : link(code)
  \/ link_report
  \/ return_tuple

SpecPipe == InitPipe /\ [][NextPipe]_vars

\* ==================================================== claims: SpecBuilder

\* An Operand is a list iff it has neither a bound value nor a constraint.
IsListRecord(opr) == opr.value = NoValue /\ opr.constraint = <<>>

Range(q) == {q[i] : i \in 1..Len(q)}

\* The non-list operands a sequence of references stands for, every list
\* replaced by its children in child order.
RECURSIVE Flatten(_)
Flatten(ptrs) ==
  IF ptrs = <<>> THEN <<>>
  ELSE (IF IsListRecord(argArchive[Head(ptrs)])
          THEN Flatten(argArchive[Head(ptrs)].list)
          ELSE <<Head(ptrs)>>) \o Flatten(Tail(ptrs))

\* Every reference made by the executions so far, in order.
RECURSIVE RefsFrom(_)
RefsFrom(k) ==
  IF k > Len(executions) THEN <<>>
  ELSE Flatten(executions[k].argsInOrder) \o RefsFrom(k + 1)

\* q without the repetitions of an element that occurred before.
RECURSIVE Distinct(_, _)
Distinct(q, seen) ==
  IF q = <<>> THEN <<>>
  ELSE IF Head(q) \in seen THEN Distinct(Tail(q), seen)
  ELSE <<Head(q)>> \o Distinct(Tail(q), seen \cup {Head(q)})

\* The distinct referenced operands, in first-reference order.
FirstRefs == Distinct(RefsFrom(1), {})

\* The entries of a comma-separated string.
RECURSIVE SplitFrom(_, _)
SplitFrom(chars, entry) ==
  IF chars = <<>> THEN <<entry>>
  ELSE IF Head(chars) = "," THEN <<entry>> \o SplitFrom(Tail(chars), <<>>)
  ELSE SplitFrom(Tail(chars), Append(entry, Head(chars)))

Split(chars) == IF chars = <<>> THEN <<>> ELSE SplitFrom(chars, <<>>)

\* The text of execution k when every operand is written as % followed by
\* its position in args (counted from 0).
RECURSIVE PositionIn(_, _)
PositionIn(q, x) ==
  IF q = <<>> THEN 0 ELSE IF Head(q) = x THEN 1 ELSE
    LET r == PositionIn(Tail(q), x) IN IF r = 0 THEN 0 ELSE r + 1

RECURSIVE TokensOf(_, _)
TokensOf(ptrs, args) ==
  IF ptrs = <<>> THEN <<>>
  ELSE LET opr == argArchive[Head(ptrs)]
       IN (IF opr.repr.kind = "const" THEN <<opr.repr.text>>
           ELSE IF IsListRecord(opr)
             THEN <<JoinStr(TokensOf(opr.list, args), ", ")>>
           ELSE IF PositionIn(args, Head(ptrs)) = 0 THEN <<"?">>
           ELSE <<"%" \o ToString(PositionIn(args, Head(ptrs)) - 1)>>)
          \o TokensOf(Tail(ptrs), args)

TextByPosition(k, args) ==
  LET e == executions[k]
      a == JoinStr(TokensOf(e.argsInOrder, args), ", ")
      m == JoinStr([i \in 1..Len(e.mods) |-> to_str(modArchive[e.mods[i]])], ":")
  IN JoinStr(instrs[e.instr].instrParts, "_")
     \o (IF a = "" THEN "" ELSE " " \o a) \o (IF m = "" THEN "" ELSE " " \o m)

\* C1: the constraint string, the argument list (getAllArgs, getAllMLIRArgs)
\* and the rendered text line up position by position: entry i of the
\* constraint string is the constraint of argument i, value i is its bound
\* value, the operand rendered as %i is argument i; the constraint string and
\* the argument list have the same length.
C1_ArtifactsAligned ==
  LET args == getAllArgs
      cs == Split(getConstraints)
  IN /\ Len(cs) = Len(args)
     /\ Len(getAllMLIRArgs) = Len(args)
     /\ \A i \in 1..Len(args) :
          /\ cs[i] = argArchive[args[i]].constraint
          /\ getAllMLIRArgs[i] = argArchive[args[i]].value
          /\ argArchive[args[i]].idx = i - 1
     /\ \A p \in Range(RefsFrom(1)) :
          /\ argArchive[p].idx \in 0..(Len(args) - 1)
          /\ args[argArchive[p].idx + 1] = p
     /\ \A k \in 1..Len(executions) : dump(k) = TextByPosition(k, args)

\* An execution over a list of two children and an operand created before
\* the list: three arguments, and the operand created first is rendered %2.
C1_Witness ==
  /\ Len(executions) = 1
  /\ Len(getAllArgs) = 3
  /\ Len(Split(getConstraints)) = 3
  /\ argArchive[1].idx = 2
  /\ argArchive[1].constraint # argArchive[3].constraint
  /\ dump(1) = "v_mov_b32 %0, %1, %2"

\* Every operand carries the index its place in first-reference order gives.
C2_IndexState ==
  /\ \A k \in 1..Len(FirstRefs) : argArchive[FirstRefs[k]].idx = k - 1
  /\ \A p \in 1..Len(argArchive) :
       p \notin Range(FirstRefs) => argArchive[p].idx = -1
  /\ \A p \in 1..Len(argArchive) :
       IsListRecord(argArchive[p]) => argArchive[p].idx = -1
  /\ oprCounter = Len(FirstRefs)

\* No step changes an index that has been assigned.
C2_IndexKept ==
  \A p \in 1..Len(argArchive) :
    argArchive[p].idx >= 0 => argArchive'[p].idx = argArchive[p].idx

\* C2: the k-th distinct operand to be referenced by an invocation (lists
\* expanded to their children in child order) has index k-1; the order is
\* that of first reference, not of creation; an operand that has an index
\* keeps it whatever is referenced later; a list operand never has an index.
C2_FirstReferenceOrder == [](C2_IndexState) /\ [][C2_IndexKept]_vars

\* The second execution refers again to an operand the first one indexed,
\* and an operand created earlier carries a larger index than a later one.
C2_Witness ==
  /\ Len(executions) = 2
  /\ \E p \in Range(Flatten(executions[2].argsInOrder)) :
       p \in Range(Flatten(executions[1].argsInOrder))
  /\ \E p, q \in 1..Len(argArchive) :
       p < q /\ argArchive[q].idx >= 0 /\ argArchive[p].idx > argArchive[q].idx
  /\ \E p \in Range(executions[1].argsInOrder) :
       IsListRecord(argArchive[p]) /\ Len(argArchive[p].list) = 2

C9_Frozen ==
  /\ Len(executions') >= Len(executions)
  /\ \A k \in 1..Len(executions) : executions'[k] = executions[k]
  /\ IF last'.op = "call"
       THEN /\ Len(executions') = Len(executions) + 1
            /\ executions'[Len(executions')] =
                 [instr |-> last'.instr, argsInOrder |-> last'.oprs, mods |-> last'.mods]
       ELSE Len(executions') = Len(executions)

Outcome ==
  CASE pc = "done" -> [kind |-> "returned", value |-> ret]
    [] pc = "fatal" -> [kind |-> "report_fatal_error"]
    [] pc = "crashed" -> [kind |-> "crash"]
    [] OTHER -> [kind |-> "running"]

\* The lookup has been made and returned no target.
LookupFailed ==
  /\ target = Null
  /\ error # ""

C5_LinkerFailureReported ==
  (pc = "done" /\ target # Null /\ IsabinPath \in files) =>
    IF lld_result = 0
      THEN Outcome = [kind |-> "returned", value |-> <<amdgcn, HsacoPath>>]
      ELSE Outcome = [kind |-> "linker-failure", code |-> lld_result,
                      message |-> error_message]

\* The stages stamped for module a, in the order they ran.
RECURSIVE StagesOf(_, _)
StagesOf(t, a) ==
  IF t = <<>> THEN <<>>
  ELSE IF Head(t).module = a THEN <<Head(t).stage>> \o StagesOf(Tail(t), a)
  ELSE StagesOf(Tail(t), a)

\* C6: every emission (assembly text, relocatable object) happens only after
\* Verify has succeeded and Configure Target has completed for the module that
\* is emitted, in the order verify, configure, emit with no step back; and if
\* verification fails nothing is produced: no assembly text, no object file,
\* no linked binary, no returned result.
C6_StageOrder ==
  /\ \A a \in DOMAIN heap :
       StagesOf(trail, a) \in {<<>>, <<"verify">>, <<"verify", "configure">>,
                               <<"verify", "configure", "emit">>}
  /\ amdgcn # NoText =>
       StagesOf(trail, Module0) = <<"verify", "configure", "emit">>
  /\ IsabinPath \in files =>
       \E a \in DOMAIN heap :
         /\ StagesOf(trail, a) = <<"verify", "configure", "emit">>
         /\ \E k \in 1..Len(trail) :
              trail[k] = [branch |-> "obj", stage |-> "emit", module |-> a]
  /\ ~input0.valid =>
       /\ amdgcn = NoText
       /\ files = {}
       /\ ret = <<>>
       /\ pc \in {"init_llvm", "CloneModule", "call_asm", "verify", "fatal"}

\* The translation has returned after emitting both the assembly text and
\* the object file.
C6_Witness ==
  /\ pc = "done"
  /\ amdgcn # NoText
  /\ IsabinPath \in files
  /\ Len(trail) = 6

\* C10: the module used for object emission is cloned from the input module
\* before any stage has modified the input, the two branches never operate
\* on the same module object, and each branch starts from the module exactly
\* as it was handed in (so neither result depends on which branch ran first).
C10_IndependentCopies ==
  /\ module_obj # Null => module_obj # Module0
  /\ pc = "call_asm" => heap[Module0] = input0 /\ heap[module_obj] = input0
  /\ (pc = "verify" /\ branch = "asm") => heap[cur] = input0
  /\ (pc = "verify" /\ branch = "obj") => heap[cur] = input0
  /\ \A i, j \in 1..Len(trail) :
       trail[i].branch # trail[j].branch => trail[i].module # trail[j].module
  /\ branch = "asm" => cur = Module0
  /\ branch = "obj" => cur # Module0

\* The object branch is entered after the assembly branch has lowered the
\* caller's module.
C10_Witness ==
  /\ pc = "verify"
  /\ branch = "obj"
  /\ heap[Module0].lowered
  /\ heap[Module0] # input0
  /\ amdgcn # NoText

\* ====================================================== claims: SpecInstr

\* What the last call left in the instruction it was applied to.
PartsNow == instrs[last.instr].instrParts

\* C7: float_op_type(width) appends exactly one of "f16", "f32", "f64" for
\* width 16, 32, 64; for width 8 it fails an invariant and never returns
\* normally; for every other width it returns with the tokens unchanged.
C7_FloatSuffix ==
  last.op = "float_op_type" =>
    CASE last.width = 16 -> ~aborted /\ PartsNow = last.before \o <<"f16">>
      [] last.width = 32 -> ~aborted /\ PartsNow = last.before \o <<"f32">>
      [] last.width = 64 -> ~aborted /\ PartsNow = last.before \o <<"f64">>
      [] last.width = 8 -> aborted
      [] OTHER -> ~aborted /\ PartsNow = last.before

\* C8: load_type appends exactly one of "ubyte", "ushort", "dword", "dwordx2"
\* and store_type one of "byte", "short", "dword", "dwordx2" for width 8, 16,
\* 32, 64; any other width appends nothing and raises no error; the tokens
\* accumulated before (base mnemonic first) stay as they were.
C8_LoadStoreSuffix ==
  /\ \A i \in 1..Len(instrs) :
       Len(instrs[i].instrParts) >= 1 /\ instrs[i].instrParts[1] \in InstrNames
  /\ last.op = "load_type" =>
       /\ ~aborted
       /\ PartsNow = last.before \o
            (CASE last.width = 8 -> <<"ubyte">>
               [] last.width = 16 -> <<"ushort">>
               [] last.width = 32 -> <<"dword">>
               [] last.width = 64 -> <<"dwordx2">>
               [] OTHER -> <<>>)
  /\ last.op = "store_type" =>
       /\ ~aborted
       /\ PartsNow = last.before \o
            (CASE last.width = 8 -> <<"byte">>
               [] last.width = 16 -> <<"short">>
               [] last.width = 32 -> <<"dword">>
               [] last.width = 64 -> <<"dwordx2">>
               [] OTHER -> <<>>)

\* A load_type(32) applied to an instruction that store_type(8) had already
\* extended: both mappings acted, in call order.
C8_Witness ==
  /\ last.op = "load_type"
  /\ last.width = 32
  /\ Len(last.before) = 2
  /\ last.before[2] = "byte"
  /\ PartsNow[3] = "dword"

====
